---- MODULE Spec2Model ----
(***************************************************************************)
(* Disc localisation and vertebral labelling of sct_label_vertebrae.py:    *)
(* local_adjustment, the table of expected disc offsets, the search        *)
(* windows, the basin-hopping optimisation of get_correlation_sum, the     *)
(* finalisation of the disc list, the propagation of the labels to the     *)
(* segmentation and clean_labeled_segmentation.                            *)
(*                                                                         *)
(* Conventions.  Python arrays are 0-based; a TLA+ sequence s holds the    *)
(* array element of index i at s[i+1] (see At).  Real numbers are kept in  *)
(* fixed point: a correlation c is the integer c*CorrOne, a template       *)
(* distance d (in slices) is the integer d*DistDen.  A coordinate x of the *)
(* optimiser's real vector is kept as the integer h: h = 0 is x = 0        *)
(* exactly (the initial guess), an odd h = 2m+1 is some x in the open      *)
(* interval (m, m+1).                                                      *)
(***************************************************************************)
EXTENDS Integers, Sequences, FiniteSets, TLC

\* ------------------------------------------------------------------ bounds
\* basinhopping runs niter = 100 iterations (scipy's default); the model
\* explores the first MaxIter of them.
MaxIter == 6
\* The same, for the run with four expected discs.
ScenarioIter == 2
\* Fixed-point denominators.
CorrOne == 2
DistDen == 2
\* Width (x extent) of the modelled segmentation, in voxels.
NX == 2

\* ------------------------------------------------------- program constants
\* len(mean_distance): the 22 entries of the distance template.
NTemplate == 22
\* np.where(diff_z_disc_real < 5): minimum spacing of two discs.
MinSpacing == 5
\* sct_maths -dilate 2
DilateRadius == 2
\* searching_window = range(-9, 13)
SearchLo == -9
SearchHi == 12
\* thr_corr = 0.15, in hundredths.
ThrCorr == 15

VARIABLES
    pc,                             \* position in main / vertebral_detection
    arguments,                      \* the options -initz and -initcenter
    nz,                             \* number of slices of the volume
    pz,                             \* voxel size along z in mm, << numerator, denominator >>
    size_IS,                        \* int(round(7 / pz))
    init_z,                         \* init_disc[0] as given by the caller
    current_disc,                   \* init_disc[1]
    peak,                           \* best local maximum: << >> or <<index, value>>
    gaussian_window,                \* local_adjustment's window, by exponents
    current_z,                      \* anchor z, after local_adjustment
    mean_distance,                  \* template (slices * DistDen), calibrated at line 336
    correlation_profile,            \* correlation along z (c * CorrOne)
    z_corr_max_approx,              \* find_peaks_cwt(correlation_profile, ...)
    niter,                          \* iterations of basinhopping that are explored
    mean_distance_from_init_disc_append,  \* clipped table of expected offsets
    z_corr_max,                     \* approximate disc positions
    bh_x, bh_best, bh_iter,         \* basinhopping: current point, lowest point, iteration
    z_adjustment,                   \* optimization.x.astype(int)
    z_adjustment_first,             \* the same, of an earlier run on the same inputs
    z_disc_real,                    \* rounded positions before the removal
    positions_to_cut,               \* Python indices removed from z_disc_real
    list_disc_z, list_disc_value,   \* finalised discs
    seg,                            \* segmentation mask, voxel -> 0/1
    loop_iz,                        \* the slice the labelling loop is at
    labeled,                        \* seg.data in and after the labelling loop
    cleaned,                        \* output of clean_labeled_segmentation
    recleaned                       \* clean_labeled_segmentation of its own output

inputs == << nz, pz, size_IS, init_z, current_disc, mean_distance, correlation_profile,
            z_corr_max_approx, niter >>
tableVars == << mean_distance_from_init_disc_append, z_corr_max >>
bhVars == << bh_x, bh_best, bh_iter >>
discVars == << z_disc_real, positions_to_cut, list_disc_z, list_disc_value >>
segVars == << seg, loop_iz, labeled, cleaned, recleaned >>

vars == << pc, arguments, inputs, peak, gaussian_window, current_z, tableVars, bhVars, z_adjustment,
           z_adjustment_first, discVars, segVars >>

\* ----------------------------------------------------------------- helpers
\* s[i] of a Python array s.
At(s, i) == s[i + 1]

Abs(a) == IF a < 0 THEN -a ELSE a

\* Python 2 round(n/d) for d > 0: halves are rounded away from zero.
RoundHalfAway(n, d) ==
    IF n >= 0 THEN (2 * n + d) \div (2 * d) ELSE -((2 * (-n) + d) \div (2 * d))

RECURSIVE SumRange(_, _, _)
\* s[lo] + ... + s[hi] of a Python array s (0 when hi < lo).
SumRange(s, lo, hi) == IF hi < lo THEN 0 ELSE At(s, hi) + SumRange(s, lo, hi - 1)

\* len(a[start:stop]) of a numpy array of n elements (negative indices wrap).
SliceLen(start, stop, n) ==
    LET norm(i) == IF i < 0 THEN (IF n + i < 0 THEN 0 ELSE n + i)
                   ELSE (IF i > n THEN n ELSE i)
        d == norm(stop) - norm(start)
    IN  IF d < 0 THEN 0 ELSE d

\* ------------------------------------------------------- local_adjustment
\* Only the pattern around z has the full IS extent.
PatternCompleteCentre(z, sIS, n) == SliceLen(z - sIS, z + sIS + 1, n) = 2 * sIS + 1

\* The pattern around z and every shifted pattern have the full IS extent.
PatternComplete(z, sIS, n) ==
    /\ SliceLen(z - sIS, z + sIS + 1, n) = 2 * sIS + 1
    /\ \A iz \in SearchLo..SearchHi :
           SliceLen(z + iz - sIS, z + iz + sIS + 1, n) = 2 * sIS + 1

\* argrelextrema(..., order=5) compares with clipped neighbours, so the first
\* and the last entry of I_corr_adj are never local maxima.
PeakIndices == 1..(SearchHi - SearchLo - 1)

\* Any local maximum is taken.
PeakAcceptedAny(p) == p # << >>

\* Lines 552-563: a local maximum was found, and the one with the largest
\* I_corr_adj is not below thr_corr.
PeakAccepted(p) == p # << >> /\ ~(p[2] < ThrCorr)

\* scipy.signal.gaussian(M, std), line 543: entry n of the window is
\* exp(-(n - (M-1)/2)^2 / (2 std^2)) = exp(-GaussianExponent(n, M) / (8 std^2)),
\* with std = len(searching_window)/3 = 7.  The model keeps the exponent's
\* numerator of every entry: the larger it is, the smaller the weight.
GaussianExponent(n, M) == (2 * n - (M - 1)) * (2 * n - (M - 1))

gaussian(M) == [k \in 1..M |-> GaussianExponent(k - 1, M)]

\* The adjustment without the halving of the offset.
AdjustedZWhole(z, ind_peak) == z + (SearchLo + ind_peak) + 1

\* adjusted_z = int(current_z + round(searching_window[ind_peak]/2)) + 1
\* (Python 2: the division of two ints is the floor division).
AdjustedZ(z, ind_peak) == z + ((SearchLo + ind_peak) \div 2) + 1

\* ------------------------------------------------- get_correlation_profile
\* pattern.shape[2] of data[..., z-size_IS:z+size_IS+1]
PatternLen(z, sIS, n) == SliceLen(z - sIS, z + sIS + 1, n)

\* padding_size = pattern_ref.shape[2] - pattern.shape[2] is negative for
\* some slice z of range(0, nz).
PadRaises(cz, sIS, n) ==
    \E z \in 0..(n - 1) : PatternLen(cz, sIS, n) - PatternLen(z, sIS, n) < 0

\* ---------------------------------------- table of expected disc offsets
current_disc_adj == current_disc - 1

LenTable == NTemplate + 1

\* mean_distance_from_init_disc[len - idistance - 1], lines 339-352.
TableEntry(md, adj, idistance) ==
    IF idistance < adj
    THEN RoundHalfAway(SumRange(md, idistance, adj - 1), DistDen)
    ELSE IF idistance > adj
         THEN RoundHalfAway(-SumRange(md, adj, idistance - 1), DistDen)
         ELSE 0

mean_distance_from_init_disc(md, adj) ==
    [j \in 1..LenTable |-> TableEntry(md, adj, LenTable - j)]

\* Lines 354-370: the part [ind_inf:ind_sup] of the table.
IndInf(tab, adj, z) ==
    Cardinality({i \in 0..(LenTable - 1) :
                    i < LenTable - adj /\ At(tab, i) + z <= 0})

IndSup(tab, adj, z, n) ==
    (LenTable - adj)
    + Cardinality({i \in 0..(LenTable - 1) :
                      i >= LenTable - adj /\ ~(At(tab, i) + z > n)})

\* a[lo:hi] of a Python array, 0 <= lo.
PySlice(a, lo, hi) ==
    LET h == IF hi > Len(a) THEN Len(a) ELSE hi
    IN  IF h <= lo THEN << >> ELSE [k \in 1..(h - lo) |-> a[lo + k]]

CutTable(tab, adj, z, n) == PySlice(tab, IndInf(tab, adj, z), IndSup(tab, adj, z, n))

\* ----------------------------------------------------- search windows
\* mean_distance_from_z0 = mean_distance_from_init_disc_append + current_z
\* int(round(0.5*(b - a) + a))
MidPoint(a, b) == RoundHalfAway(b + a, 2)

LowerLim(z0, ind) ==
    LET raw == IF ind = 0 THEN 0 ELSE MidPoint(At(z0, ind - 1), At(z0, ind))
    IN  IF raw < 0 THEN 0 ELSE raw

UpperLim(z0, ind, np) ==
    LET raw == IF ind = Len(z0) - 1 /\ ind # 0
               THEN np - 1
               ELSE MidPoint(At(z0, ind), At(z0, ind + 1))
    IN  IF raw > np - 1 THEN np - 1 ELSE raw

\* The slices of correlation_profile[lowerlim:upperlim].
Window(z0, ind, np) ==
    {z \in 0..(np - 1) : LowerLim(z0, ind) <= z /\ z < UpperLim(z0, ind, np)}

\* np.argmax: the first slice of the window that holds its maximum.
ArgMax(profile, W) ==
    CHOOSE z \in W : \A y \in W : \/ At(profile, y) < At(profile, z)
                                  \/ (At(profile, y) = At(profile, z) /\ z <= y)

ZCorrMax(profile, z0) ==
    [k \in 1..Len(z0) |-> ArgMax(profile, Window(z0, k - 1, Len(profile)))]

\* ---------------------------------------------------- get_correlation_sum
\* int(x) of the real x that h stands for (astype(int) truncates).
AsTypeInt(h) ==
    IF h = 0 THEN 0
    ELSE LET m == (h - 1) \div 2 IN IF m >= 0 THEN m ELSE m + 1

\* (z_corr_max + z_adjustment).astype(int) for one disc: p is an integer, so
\* p + x lies in (p+m, p+m+1) and is truncated towards zero.
TruncSum(p, h) ==
    IF h = 0 THEN p
    ELSE LET m == (h - 1) \div 2 IN IF p + m >= 0 THEN p + m ELSE p + m + 1

\* index, after the correction for z at the border of the image.
Index(x, zcm, np) ==
    [i \in 1..Len(zcm) |->
        LET t == TruncSum(zcm[i], x[i])
        IN  IF t > np - 1 THEN np - 1 ELSE IF t < 0 THEN 0 ELSE t]

\* constraint[i] (i is the Python index).
Constraint(index, tab, adj, i) ==
    LET n == Len(index)
    IN  IF i = n - adj - 1
        THEN 0
        ELSE IF i < n - 1
             THEN Abs((At(index, i + 1) - At(index, i)) - (At(tab, i + 1) - At(tab, i)))
             ELSE Abs((At(index, i) - At(index, i - 1)) - (At(tab, i) - At(tab, i - 1)))

RECURSIVE SumTerms(_, _, _, _, _)
SumTerms(index, tab, profile, adj, i) ==
    IF i < 0 THEN 0
    ELSE LET c == At(profile, At(index, i))
         IN  (c - (CorrOne - c) * Constraint(index, tab, adj, i))
             + SumTerms(index, tab, profile, adj, i - 1)

\* result * CorrOne
get_correlation_sum(x, zcm, tab, profile, np, adj) ==
    -SumTerms(Index(x, zcm, np), tab, profile, adj, Len(zcm) - 1)

\* ------------------------------------------------------------ basinhopping
\* One random displacement of a coordinate: x + uniform(-stepsize, stepsize)
\* with stepsize = 1.  From x = 0 the new x is in (-1, 0) or (0, 1); from
\* (m, m+1) it is in (m-1, m), (m, m+1) or (m+1, m+2).
Displacements(h) == IF h = 0 THEN {-1, 1} ELSE {h - 2, h, h + 2}

RECURSIVE TrialsUpTo(_, _)
TrialsUpTo(x, n) ==
    IF n = 0 THEN {<< >>}
    ELSE {Append(t, d) : t \in TrialsUpTo(x, n - 1), d \in Displacements(x[n])}

\* The points one displacement of every coordinate away from x.
Trials(x) == TrialsUpTo(x, Len(x))

Energy(x) ==
    get_correlation_sum(x, z_corr_max, mean_distance_from_init_disc_append,
                        correlation_profile, nz, current_disc_adj)

\* --------------------------------------------------------- disc list
\* The rounded positions without the + 1.
ZDiscRealNoOffset(adjustment, zcm) == [i \in 1..Len(zcm) |-> adjustment[i] + zcm[i]]

\* z_disc_real = np.rint(z_adjustment + z_corr_max + 1): every term is an
\* integer, so the rounding changes nothing.
ZDiscReal(adjustment, zcm) == [i \in 1..Len(zcm) |-> adjustment[i] + zcm[i] + 1]

\* A removal that marks the higher index of every pair closer than MinSpacing.
PositionsToCutUpper(z) ==
    {i + 1 : i \in {j \in 0..(Len(z) - 2) : At(z, j + 1) - At(z, j) < MinSpacing}}

\* np.where(np.diff(z) < 5): the Python indices i with z[i+1] - z[i] < 5.
PositionsToCut(z) == {i \in 0..(Len(z) - 2) : At(z, i + 1) - At(z, i) < MinSpacing}

RECURSIVE Delete(_, _)
\* np.delete(z, cut)
Delete(z, cut) ==
    IF z = << >> THEN << >>
    ELSE LET rest == Delete(SubSeq(z, 1, Len(z) - 1), cut)
         IN  IF (Len(z) - 1) \in cut THEN rest ELSE Append(rest, z[Len(z)])

\* np.abs(z - current_z).argmin(): the first index of the smallest distance.
ArgMinAbs(z, c) ==
    CHOOSE i \in 0..(Len(z) - 1) :
        \A j \in 0..(Len(z) - 1) :
            \/ Abs(At(z, j) - c) > Abs(At(z, i) - c)
            \/ (Abs(At(z, j) - c) = Abs(At(z, i) - c) /\ i <= j)

\* A numbering that gives the anchor's level to the first disc of the list.
ListDiscValueFromFirst(z, c, disc) == [j \in 1..Len(z) |-> disc - (j - 1)]

\* A numbering with the two ends of np.linspace exchanged.
ListDiscValueAscending(z, c, disc) ==
    LET k == ArgMinAbs(z, c)
        disc_inf == disc - (Len(z) - 1 - k)
        disc_sup == disc + k
    IN  [j \in 1..(disc_sup - disc_inf + 1) |-> disc_inf + (j - 1)]

\* list_disc_value = np.linspace(disc_sup, disc_inf, num=disc_sup-disc_inf+1)
ListDiscValue(z, c, disc) ==
    LET k == ArgMinAbs(z, c)
        disc_inf == disc - (Len(z) - 1 - k)
        disc_sup == disc + k
    IN  [j \in 1..(disc_sup - disc_inf + 1) |-> disc_sup - (j - 1)]

\* ------------------------------------------------------------ calibrator
\* a[i] of a Python array of n entries: a negative index counts from the end.
PyIndex(i, n) == IF i < 0 THEN i + n ELSE i

\* new_current_disc, line 328: the peak nearest the anchor.
new_current_disc(approx, z) == ArgMinAbs(approx, z)

\* z_corr_max_approx[new_current_disc+1] (line 330) is read before anything
\* else: IndexError when the nearest peak is the last one.
CalibratorRaises(approx, z) ==
    /\ Len(approx) > 0
    /\ new_current_disc(approx, z) + 1 > Len(approx) - 1

\* correcting_factor_template, lines 330-335, as << numerator, denominator >>
\* of a fraction of integers (md holds slices * DistDen).
correcting_factor_template(approx, z, md, adj) ==
    LET k == new_current_disc(approx, z)
        next == At(approx, k + 1) - At(approx, k)
        prev == At(approx, k) - At(approx, PyIndex(k - 1, Len(approx)))
    IN  IF next > 2
        THEN << next * DistDen, At(md, adj) >>
        ELSE IF prev > 2
             THEN << prev * DistDen, At(md, PyIndex(adj - 1, Len(md))) >>
             ELSE << 1, 1 >>

\* correcting_factor_template * mean_distance, line 336.  The templates of the
\* model are uniform and the peaks are on whole slices: the division is exact.
Calibrated(md, f) == [i \in 1..Len(md) |-> (md[i] * f[1]) \div f[2]]

\* ------------------------------------------------------ label segmentation
Voxels(n) == (0..(NX - 1)) \X (0..(n - 1))

\* Python indices of the discs above iz: np.nonzero((list_disc_z-iz).clip(0)).
IndAbove(lz, iz) == {i \in 0..(Len(lz) - 1) : At(lz, i) - iz > 0}

SetMin(S) == CHOOSE a \in S : \A b \in S : a <= b
SetMax(S) == CHOOSE a \in S : \A b \in S : b <= a

vertebral_level(lz, lv, iz) ==
    IF IndAbove(lz, iz) = {} THEN 0 ELSE At(lv, SetMin(IndAbove(lz, iz))) + 1

\* seg.data after the loop over iz.
LabelSegmentation(mask, lz, lv) ==
    [v \in DOMAIN mask |-> IF mask[v] # 0 THEN vertebral_level(lz, lv, v[2]) ELSE 0]

\* ---------------------------------------------- clean_labeled_segmentation
\* sct_maths -mul
Mul(a, b) == [v \in DOMAIN a |-> a[v] * b[v]]

\* sct_maths -bin
Bin(a) == [v \in DOMAIN a |-> IF a[v] > 0 THEN 1 ELSE 0]

\* sct_maths -dilate r: grey dilation by a ball of radius r.
Dilate(a, r) ==
    [v \in DOMAIN a |->
        SetMax({a[u] : u \in {w \in DOMAIN a :
                   (w[1] - v[1]) * (w[1] - v[1]) + (w[2] - v[2]) * (w[2] - v[2]) <= r * r}})]

\* A cleaning that reads the dilated volume at every voxel of the
\* segmentation, labelled or not.
clean_by_dilation(lab, mask) ==
    LET data_label_dilate == Dilate(lab, DilateRadius)
    IN  [v \in DOMAIN mask |-> IF mask[v] # 0 THEN data_label_dilate[v] ELSE 0]

clean_labeled_segmentation(lab, mask) ==
    LET mul == Mul(lab, mask)
        data_label_dilate == Dilate(lab, DilateRadius)
        data_label_bin == Bin(mul)
    IN  [v \in DOMAIN mask |->
            IF mask[v] - data_label_bin[v] # 0 THEN data_label_dilate[v] ELSE mul[v]]

\* ------------------------------------------------------------------ inputs
\* A template whose entries are all s slices.
UniformTemplate(s) == [i \in 1..NTemplate |-> s * DistDen]

\* A correlation profile of n slices: 1 on the slices of hi, a smaller
\* correlation on the slices of mid, 0 elsewhere.
Profile(n, hi, mid) ==
    [k \in 1..n |-> IF (k - 1) \in hi THEN CorrOne
                    ELSE IF (k - 1) \in mid THEN CorrOne - 1 ELSE 0]

\* A voxel size for which int(round(7 / pz)) is sIS: 7/sIS mm, or 15 mm for 0.
PzOf(sIS) == IF sIS = 0 THEN << 15, 1 >> ELSE << 7, sIS >>

\* size_IS = int(round(size_IS / pz)), lines 235 and 269.
SizeIS(p) == RoundHalfAway(7 * p[2], p[1])

\* In Input the template is given as it is after line 297, in slices.
Input(n, sIS, z, disc, s, hi, mid) ==
    [nz |-> n, pz |-> PzOf(sIS), size_IS |-> sIS, init_z |-> z, current_disc |-> disc,
     mean_distance |-> UniformTemplate(s), profile |-> Profile(n, hi, mid),
     niter |-> MaxIter, peak |-> << >>, peaks |-> << >>]

\* Runs with two expected discs: anchors at the second disc (level 2) of a
\* volume of 12 slices with a template spacing of 4 slices, and of a volume
\* of 46 slices with a spacing of 44 slices.
InputsTwoDiscs ==
    { Input(12, 1, 4, 2, 4, {3}, {9}),
      Input(46, 1, 1, 2, 44, {22, 30}, {}) }

\* The runs that are explored: the above, a volume of 9 slices with three
\* expected discs 3 slices apart under an anchor at the top disc (level 1),
\* the same anchor in a volume of 8 slices, where the reference pattern of
\* the profile is cut by the top of the volume,
\* a volume of 28 slices in which local_adjustment has room to move the
\* anchor, and a volume of 6 slices with patterns of one slice (size_IS = 0)
\* and the anchor at the top disc on slice 0, where no expected disc is kept.
\* find_peaks_cwt (scipy) is not modelled: the peaks it returns are part of
\* the input.  It finds none in the runs above; in the run of 9 slices it may
\* also find the two highest peaks, of which the last is nearest the anchor;
\* in a volume of 12 slices with peaks at 1, 4 and 9 and the anchor at the top
\* disc on slice 4, the template of 2 slices per disc is stretched to 5.
Inputs ==
    InputsTwoDiscs \cup
    { Input(9, 1, 7, 1, 3, {2, 8}, {0, 5}),
      Input(8, 1, 7, 1, 3, {2, 7}, {0, 5}),
      Input(28, 1, 12, 1, 13, {20}, {5}),
      Input(6, 0, 0, 1, 3, {2}, {}),
      [Input(9, 1, 7, 1, 3, {2, 8}, {0, 5}) EXCEPT !.peaks = << 2, 8 >>],
      [Input(12, 1, 4, 1, 2, {1, 4, 9}, {}) EXCEPT !.peaks = << 1, 4, 9 >>] }

Zeros(n) == [i \in 1..n |-> 0]

\* Segmentations: a block of slices lo..hi, w of the NX columns wide.
Mask(n, lo, hi, w) ==
    [v \in Voxels(n) |-> IF lo <= v[2] /\ v[2] <= hi /\ v[1] < w THEN 1 ELSE 0]

\* The segmentations of a run start within MaskMargin slices of the bottom
\* and end within MaskMargin slices of the top of the volume.
MaskMargin == 1

Masks(n) ==
    {Mask(n, lo, hi, w) : lo \in 0..MaskMargin, hi \in (n - 1 - MaskMargin)..(n - 1),
                          w \in 1..NX}

\* -------------------------------------------------------------------- Init
\* -initz z,level (arguments['-initz'] is the list [z, level]) and
\* -initcenter level.  An absent option is '', which is falsy: -initz is then
\* kept as the empty list and -initcenter as 0, which are falsy too.
Args(initz, initcenter) == [initz |-> initz, initcenter |-> initcenter]

\* The command lines that give the anchor of c, and the one that gives none.
Arguments(c) ==
    { Args(<< c.init_z, c.current_disc >>, 0),
      Args(<< >>, c.current_disc),
      Args(<< >>, 0) }

\* The state at stage of a run on the volume c, with anchor (z, disc).
StateOf(c, stage, args, z, disc) ==
    /\ pc = stage
    /\ arguments = args
    /\ nz = c.nz
    /\ pz = c.pz
    /\ size_IS = c.size_IS
    /\ init_z = z
    /\ current_disc = disc
    /\ peak = c.peak
    /\ gaussian_window = << >>
    /\ current_z = z
    /\ mean_distance = c.mean_distance
    /\ correlation_profile = c.profile
    /\ z_corr_max_approx = c.peaks
    /\ niter = c.niter
    /\ mean_distance_from_init_disc_append = << >>
    /\ z_corr_max = << >>
    /\ bh_x = << >>
    /\ bh_best = << >>
    /\ bh_iter = 0
    /\ z_adjustment = << >>
    /\ z_adjustment_first = << >>
    /\ z_disc_real = << >>
    /\ positions_to_cut = {}
    /\ list_disc_z = << >>
    /\ list_disc_value = << >>
    /\ seg = << >>
    /\ loop_iz = 0
    /\ labeled = << >>
    /\ cleaned = << >>
    /\ recleaned = << >>

\* The state at the call of vertebral_detection with the anchor of c.
InitOf(c) ==
    StateOf(c, "local_adjustment", Args(<< c.init_z, c.current_disc >>, 0),
            c.init_z, c.current_disc)

\* What the volume gives local_adjustment: no local maximum of I_corr_adj, or
\* the index of the best one and its value, in hundredths.
Scores == {-100, ThrCorr - 1, ThrCorr, ThrCorr + 1, 100}

Peaks == {<< >>} \cup {<< i, v >> : i \in PeakIndices, v \in Scores}

\* The state at the start of main: the anchor is not known yet.
Init ==
    \E c \in Inputs : \E p \in Peaks : \E a \in Arguments(c) :
        StateOf([c EXCEPT !.peak = p], "main", a, 0, 0)

\* ----------------------------------------------------------------- actions
\* Every command line is taken to give an anchor.
AnchorGivenAlways(args) == TRUE

\* main, lines 151-161: if initz: ... elif initcenter: ...
AnchorGiven(args) == args.initz # << >> \/ args.initcenter # 0

\* The anchor of the label main creates: (z, level) of -initz, or
\* (int(round(nz/2)), level) of -initcenter (nz/2 is the floor division).
InitDisc(args, n) ==
    IF args.initz # << >> THEN args.initz ELSE << n \div 2, args.initcenter >>

\* main, lines 149-195, for a cord that is already straight: the label is
\* created, the straightening leaves it where it is, and
\* get_z_and_disc_values_from_label reads it back as init_disc.
MainAnchor ==
    /\ pc = "main"
    /\ AnchorGiven(arguments)
    /\ init_z' = InitDisc(arguments, nz)[1]
    /\ current_disc' = InitDisc(arguments, nz)[2]
    /\ current_z' = init_z'
    /\ pc' = "local_adjustment"
    /\ UNCHANGED << arguments, nz, pz, size_IS, mean_distance, correlation_profile,
                    z_corr_max_approx, niter, peak, gaussian_window, tableVars, bhVars, z_adjustment, z_adjustment_first,
                    discVars, segVars >>

\* main, line 163: printv(..., 'error') reports the error and ends the run.
MainNoAnchor ==
    /\ pc = "main"
    /\ ~AnchorGiven(arguments)
    /\ pc' = "aborted"
    /\ UNCHANGED << arguments, inputs, peak, gaussian_window, current_z, tableVars, bhVars,
                    z_adjustment, z_adjustment_first, discVars, segVars >>

\* mean_distance * pz, line 297.  The templates and voxel sizes of the model
\* make the product a whole number of DistDen-ths.
TimesPz(md, p) == [i \in 1..Len(md) |-> (md[i] * p[1]) \div p[2]]

\* vertebral_detection, lines 293-297: the template, in mm, is adjusted to
\* the voxel size.
ConvertUnits ==
    /\ pc = "convert"
    /\ mean_distance' = TimesPz(mean_distance, pz)
    /\ pc' = "local_adjustment"
    /\ UNCHANGED << arguments, nz, pz, size_IS, init_z, current_disc, correlation_profile,
                    z_corr_max_approx, niter, peak, gaussian_window, current_z, tableVars,
                    bhVars, z_adjustment, z_adjustment_first, discVars, segVars >>

\* local_adjustment, lines 503-571.  The volume is not modelled: which entry
\* of I_corr_adj is the best local maximum, and its value, is the input peak.
LocalAdjustmentEdge ==
    /\ pc = "local_adjustment"
    /\ ~PatternComplete(init_z, size_IS, nz)
    /\ current_z' = init_z
    /\ pc' = "profile"
    /\ UNCHANGED << arguments, inputs, peak, gaussian_window, tableVars, bhVars, z_adjustment, z_adjustment_first,
                    discVars, segVars >>

LocalAdjustmentNoPeak ==
    /\ pc = "local_adjustment"
    /\ PatternComplete(init_z, size_IS, nz)
    /\ ~PeakAccepted(peak)
    /\ current_z' = init_z
    /\ gaussian_window' = gaussian(SearchHi - SearchLo + 1)
    /\ pc' = "profile"
    /\ UNCHANGED << arguments, inputs, peak, tableVars, bhVars, z_adjustment, z_adjustment_first,
                    discVars, segVars >>

LocalAdjustmentPeak ==
    /\ pc = "local_adjustment"
    /\ PatternComplete(init_z, size_IS, nz)
    /\ PeakAccepted(peak)
    /\ current_z' = AdjustedZ(init_z, peak[1])
    /\ gaussian_window' = gaussian(SearchHi - SearchLo + 1)
    /\ pc' = "profile"
    /\ UNCHANGED << arguments, inputs, peak, tableVars, bhVars, z_adjustment, z_adjustment_first,
                    discVars, segVars >>

\* Lines 310-316: the reference pattern around current_z and the correlation
\* with the pattern of every slice.  np.pad raises ValueError when a slice's
\* pattern has more slices than the reference pattern.
GetProfile ==
    /\ pc = "profile"
    /\ ~PadRaises(current_z, size_IS, nz)
    /\ pc' = "calibrate"
    /\ UNCHANGED << arguments, inputs, peak, gaussian_window, current_z, tableVars, bhVars, z_adjustment,
                    z_adjustment_first, discVars, segVars >>

GetProfileRaises ==
    /\ pc = "profile"
    /\ PadRaises(current_z, size_IS, nz)
    /\ pc' = "profile_failed"
    /\ UNCHANGED << arguments, inputs, peak, gaussian_window, current_z, tableVars, bhVars, z_adjustment,
                    z_adjustment_first, discVars, segVars >>

\* Lines 324-336: the template is multiplied by the correcting factor when
\* find_peaks_cwt found a peak.
Calibrate ==
    /\ pc = "calibrate"
    /\ ~CalibratorRaises(z_corr_max_approx, current_z)
    /\ mean_distance' =
           IF Len(z_corr_max_approx) > 0
           THEN Calibrated(mean_distance,
                           correcting_factor_template(z_corr_max_approx, current_z,
                                                      mean_distance, current_disc_adj))
           ELSE mean_distance
    /\ pc' = "cut_table"
    /\ UNCHANGED << arguments, nz, pz, size_IS, init_z, current_disc, correlation_profile,
                    z_corr_max_approx, niter, peak, gaussian_window, current_z, tableVars, bhVars,
                    z_adjustment, z_adjustment_first, discVars, segVars >>

\* Line 330 raises IndexError, which nothing catches.
CalibrateRaises ==
    /\ pc = "calibrate"
    /\ CalibratorRaises(z_corr_max_approx, current_z)
    /\ pc' = "calibrate_failed"
    /\ UNCHANGED << arguments, inputs, peak, gaussian_window, current_z, tableVars, bhVars, z_adjustment,
                    z_adjustment_first, discVars, segVars >>

\* Lines 338-370.
CutTableStep ==
    /\ pc = "cut_table"
    /\ mean_distance_from_init_disc_append' =
           CutTable(mean_distance_from_init_disc(mean_distance, current_disc_adj),
                    current_disc_adj, current_z, nz)
    /\ peak' = << >>
    /\ gaussian_window' = << >>
    /\ pc' = "find_maxima"
    /\ UNCHANGED << arguments, inputs, current_z, z_corr_max, bhVars, z_adjustment,
                    z_adjustment_first, discVars, segVars >>

mean_distance_from_z0 ==
    [k \in 1..Len(mean_distance_from_init_disc_append) |->
        mean_distance_from_init_disc_append[k] + current_z]

\* Lines 372-410 with an empty list of expected discs taken as a list that
\* can be searched.
WindowsOkEmptyList ==
    /\ Len(mean_distance_from_z0) # 1
    /\ \A k \in 1..Len(mean_distance_from_z0) :
           Window(mean_distance_from_z0, k - 1, Len(correlation_profile)) # {}

\* Lines 372-410 run to the end.  With one expected disc
\* mean_distance_from_z0[ind_dist+1] raises IndexError (line 379); np.argmax
\* of an empty window raises ValueError (line 393); with no expected disc the
\* loop is skipped, z_disc_real is empty and argmin of an empty sequence
\* raises ValueError (line 410).  Nothing catches these exceptions.
WindowsOk ==
    /\ Len(mean_distance_from_z0) >= 2
    /\ \A k \in 1..Len(mean_distance_from_z0) :
           Window(mean_distance_from_z0, k - 1, Len(correlation_profile)) # {}

\* Lines 372-396.
FindMaxima ==
    /\ pc = "find_maxima"
    /\ WindowsOk
    /\ z_corr_max' = ZCorrMax(correlation_profile, mean_distance_from_z0)
    /\ bh_x' = Zeros(Len(mean_distance_from_z0))
    /\ bh_best' = Zeros(Len(mean_distance_from_z0))
    /\ bh_iter' = 0
    /\ pc' = "basinhopping"
    /\ UNCHANGED << arguments, inputs, peak, gaussian_window, current_z, mean_distance_from_init_disc_append,
                    z_adjustment, z_adjustment_first, discVars, segVars >>

FindMaximaRaises ==
    /\ pc = "find_maxima"
    /\ ~WindowsOk
    /\ pc' = "failed"
    /\ UNCHANGED << arguments, inputs, peak, gaussian_window, current_z, tableVars, bhVars, z_adjustment,
                    z_adjustment_first, discVars, segVars >>

\* An iteration of basinhopping whose loop runs once more than niter.
BHAcceptOneMore ==
    /\ pc = "basinhopping"
    /\ bh_iter <= niter
    /\ LET lowest == Energy(bh_best)
       IN  \E y \in Trials(bh_x) :
               /\ bh_x' = y
               /\ bh_best' = IF Energy(y) < lowest THEN y ELSE bh_best
    /\ bh_iter' = bh_iter + 1
    /\ UNCHANGED << pc, arguments, inputs, peak, gaussian_window, current_z, tableVars, z_adjustment,
                    z_adjustment_first, discVars, segVars >>

\* One iteration of spo.basinhopping(get_correlation_sum, x0, stepsize=1),
\* line 398: a random displacement of every coordinate, the local
\* minimisation (get_correlation_sum is piecewise constant, its numerical
\* gradient is 0 and the minimiser returns the point it is given), the
\* Metropolis test with T = 1 (a trial that is not higher is accepted, a
\* higher one is accepted or rejected at random), and the update of the lowest
\* point found, which only a strictly lower accepted trial replaces.  No seed
\* is passed: the displacements and the test draw from numpy's global
\* generator.
BHAccept ==
    /\ pc = "basinhopping"
    /\ bh_iter < niter
    /\ LET lowest == Energy(bh_best)
       IN  \E y \in Trials(bh_x) :
               /\ bh_x' = y
               /\ bh_best' = IF Energy(y) < lowest THEN y ELSE bh_best
    /\ bh_iter' = bh_iter + 1
    /\ UNCHANGED << pc, arguments, inputs, peak, gaussian_window, current_z, tableVars, z_adjustment,
                    z_adjustment_first, discVars, segVars >>

BHReject ==
    /\ pc = "basinhopping"
    /\ bh_iter < niter
    /\ LET energy == Energy(bh_x)
       IN  \E y \in Trials(bh_x) : Energy(y) > energy
    /\ bh_iter' = bh_iter + 1
    /\ UNCHANGED << pc, arguments, inputs, peak, gaussian_window, current_z, tableVars, bh_x, bh_best, z_adjustment,
                    z_adjustment_first, discVars, segVars >>

\* optimization.x.astype(int) of the lowest point found.
Returned == [i \in 1..Len(bh_best) |-> AsTypeInt(bh_best[i])]

\* z_adjustment = optimization.x.astype(int), line 401; the optimiser's own
\* state is gone once it has returned.
BHReturn ==
    /\ pc = "basinhopping"
    /\ bh_iter = niter
    /\ z_adjustment' = Returned
    /\ bh_x' = << >>
    /\ bh_best' = << >>
    /\ bh_iter' = 0
    /\ pc' = "finalize"
    /\ UNCHANGED << arguments, inputs, peak, gaussian_window, current_z, tableVars, z_adjustment_first, discVars,
                    segVars >>

\* Lines 403-419.
Finalize ==
    /\ pc = "finalize"
    /\ z_disc_real' = ZDiscReal(z_adjustment, z_corr_max)
    /\ positions_to_cut' = PositionsToCut(z_disc_real')
    /\ list_disc_z' = Delete(z_disc_real', positions_to_cut')
    /\ list_disc_value' = ListDiscValue(list_disc_z', current_z, current_disc)
    /\ pc' = "label"
    /\ UNCHANGED << arguments, inputs, peak, gaussian_window, current_z, tableVars, bhVars, z_adjustment,
                    z_adjustment_first, segVars >>

\* Lines 422-447: the segmentation is opened and labelled slice by slice.
Label ==
    /\ pc = "label"
    /\ \E m \in Masks(nz) :
           /\ seg' = m
           /\ labeled' = LabelSegmentation(m, list_disc_z, list_disc_value)
    /\ pc' = "clean"
    /\ UNCHANGED << arguments, inputs, peak, gaussian_window, current_z, tableVars, bhVars, z_adjustment,
                    z_adjustment_first, discVars, loop_iz, cleaned, recleaned >>

\* The same lines, slice by slice.  Line 424: the segmentation is opened;
\* seg.data is the array the loop reads and writes.
LabelOpen ==
    /\ pc = "label"
    /\ \E m \in Masks(nz) :
           /\ seg' = m
           /\ labeled' = m
    /\ loop_iz' = 0
    /\ pc' = "labelling"
    /\ UNCHANGED << arguments, inputs, peak, gaussian_window, current_z, tableVars, bhVars,
                    z_adjustment, z_adjustment_first, discVars, cleaned, recleaned >>

\* seg.data after one pass of the loop that gives the level to every voxel
\* of slice z, whatever the segmentation holds there.
WriteSliceAll(data, z, level) ==
    [v \in DOMAIN data |-> IF v[2] = z THEN level ELSE data[v]]

\* Lines 439-440: the voxels of slice z where seg.data is not 0 are given
\* the level.
WriteSlice(data, z, level) ==
    [v \in DOMAIN data |-> IF v[2] = z /\ data[v] # 0 THEN level ELSE data[v]]

\* Lines 425-440: one pass of the loop over iz.
LabelSlice ==
    /\ pc = "labelling"
    /\ loop_iz < nz
    /\ labeled' = WriteSlice(labeled, loop_iz,
                            vertebral_level(list_disc_z, list_disc_value, loop_iz))
    /\ loop_iz' = loop_iz + 1
    /\ UNCHANGED << pc, arguments, inputs, peak, gaussian_window, current_z, tableVars, bhVars,
                    z_adjustment, z_adjustment_first, discVars, seg, cleaned, recleaned >>

\* Lines 445-447: the loop is over and the labelled segmentation is saved.
LabelSave ==
    /\ pc = "labelling"
    /\ loop_iz = nz
    /\ loop_iz' = 0
    /\ pc' = "clean"
    /\ UNCHANGED << arguments, inputs, peak, gaussian_window, current_z, tableVars, bhVars,
                    z_adjustment, z_adjustment_first, discVars, seg, labeled, cleaned,
                    recleaned >>

\* main, lines 197-203, for a cord that is already straight: the warp back to
\* the native space leaves the labelled segmentation as it is, and it is
\* cleaned against the segmentation it was made from.
Clean ==
    /\ pc = "clean"
    /\ cleaned' = clean_labeled_segmentation(labeled, seg)
    /\ pc' = "done"
    /\ UNCHANGED << arguments, inputs, peak, gaussian_window, current_z, tableVars, bhVars, z_adjustment,
                    z_adjustment_first, discVars, seg, loop_iz, labeled, recleaned >>

Next ==
    \/ MainAnchor
    \/ MainNoAnchor
    \/ LocalAdjustmentEdge
    \/ LocalAdjustmentNoPeak
    \/ LocalAdjustmentPeak
    \/ GetProfile
    \/ GetProfileRaises
    \/ Calibrate
    \/ CalibrateRaises
    \/ CutTableStep
    \/ FindMaxima
    \/ FindMaximaRaises
    \/ BHAccept
    \/ BHReject
    \/ BHReturn
    \/ Finalize
    \/ Label
    \/ Clean

Spec == Init /\ [][Next]_vars

\* --------------------------------- two runs of the optimiser, same inputs
\* The first run returns; its result is kept and the optimiser is started
\* again on the same z_corr_max, table and profile.
BHReturnFirst ==
    /\ pc = "basinhopping"
    /\ bh_iter = niter
    /\ z_adjustment_first = << >>
    /\ z_adjustment_first' = Returned
    /\ bh_x' = Zeros(Len(z_corr_max))
    /\ bh_best' = Zeros(Len(z_corr_max))
    /\ bh_iter' = 0
    /\ UNCHANGED << pc, arguments, inputs, peak, gaussian_window, current_z, tableVars, z_adjustment, discVars,
                    segVars >>

BHReturnSecond ==
    /\ pc = "basinhopping"
    /\ bh_iter = niter
    /\ z_adjustment_first # << >>
    /\ z_adjustment' = Returned
    /\ bh_x' = << >>
    /\ bh_best' = << >>
    /\ bh_iter' = 0
    /\ pc' = "rerun_done"
    /\ UNCHANGED << arguments, inputs, peak, gaussian_window, current_z, tableVars, z_adjustment_first, discVars,
                    segVars >>

InitRerun == \E c \in InputsTwoDiscs : InitOf(c)

NextRerun ==
    \/ LocalAdjustmentEdge
    \/ GetProfile
    \/ Calibrate
    \/ CutTableStep
    \/ FindMaxima
    \/ BHAccept
    \/ BHReject
    \/ BHReturnFirst
    \/ BHReturnSecond

SpecRerun == InitRerun /\ [][NextRerun]_vars

\* ------------------------- clean_labeled_segmentation as a function
\* Labelled volumes: at most two labelled voxels.
Labels == {1, 2}

LabelVolumes(n) ==
    {[v \in Voxels(n) |-> IF v = a THEN la ELSE IF v = b THEN lb ELSE 0] :
        a \in Voxels(n), b \in Voxels(n), la \in Labels \cup {0}, lb \in Labels \cup {0}}

AllMasks(n) ==
    {Mask(n, lo, hi, w) : lo \in 0..(n - 1), hi \in 0..(n - 1), w \in 1..NX}

\* Volumes just long enough to hold a voxel more than DilateRadius away from
\* a label, and one more than twice as far.
CleanSizes == {DilateRadius + 2, 2 * DilateRadius + 2}

InitClean ==
    \E n \in CleanSizes : \E lab \in LabelVolumes(n) : \E m \in AllMasks(n) :
        /\ pc = "clean"
        /\ arguments = Args(<< 0, 1 >>, 0)
        /\ nz = n
        /\ pz = PzOf(0)
        /\ size_IS = 0
        /\ init_z = 0
        /\ current_disc = 1
        /\ peak = << >>
        /\ gaussian_window = << >>
        /\ current_z = 0
        /\ mean_distance = << >>
        /\ correlation_profile = << >>
        /\ z_corr_max_approx = << >>
        /\ niter = 0
        /\ mean_distance_from_init_disc_append = << >>
        /\ z_corr_max = << >>
        /\ bh_x = << >>
        /\ bh_best = << >>
        /\ bh_iter = 0
        /\ z_adjustment = << >>
        /\ z_adjustment_first = << >>
        /\ z_disc_real = << >>
        /\ positions_to_cut = {}
        /\ list_disc_z = << >>
        /\ list_disc_value = << >>
        /\ seg = m
        /\ loop_iz = 0
        /\ labeled = lab
        /\ cleaned = << >>
        /\ recleaned = << >>

\* clean_labeled_segmentation applied to its own output, same segmentation.
CleanAgain ==
    /\ pc = "done"
    /\ recleaned' = clean_labeled_segmentation(cleaned, seg)
    /\ pc' = "recleaned"
    /\ UNCHANGED << arguments, inputs, peak, gaussian_window, current_z, tableVars, bhVars, z_adjustment,
                    z_adjustment_first, discVars, seg, loop_iz, labeled, cleaned >>

NextClean ==
    \/ Clean
    \/ CleanAgain

SpecClean == InitClean /\ [][NextClean]_vars

\* ------------------------------------------ the finaliser as a function
\* Lines 403-440 on their own: approximate positions 3 slices apart in a
\* volume of 8 slices, every adjustment of up to MinSpacing slices per disc,
\* an anchor one slice from either end of the volume, at level 1 or 2.
FinMaxima == {<< 0, 3 >>, << 0, 3, 6 >>}

Adjustments(n) == [1..n -> (-MinSpacing)..MinSpacing]

InitFin ==
    \E zcm \in FinMaxima : \E adj \in Adjustments(Len(zcm)) :
    \E disc \in {1, 2} : \E top \in BOOLEAN :
        /\ pc = "finalize"
        /\ arguments = Args(<< IF top THEN 6 ELSE 1, disc >>, 0)
        /\ nz = 8
        /\ pz = PzOf(1)
        /\ size_IS = 1
        /\ init_z = IF top THEN nz - 2 ELSE 1
        /\ current_disc = disc
        /\ peak = << >>
        /\ gaussian_window = << >>
        /\ current_z = init_z
        /\ mean_distance = UniformTemplate(3)
        /\ correlation_profile = Zeros(nz)
        /\ z_corr_max_approx = << >>
        /\ niter = 0
        /\ mean_distance_from_init_disc_append = << >>
        /\ z_corr_max = zcm
        /\ bh_x = << >>
        /\ bh_best = << >>
        /\ bh_iter = 0
        /\ z_adjustment = adj
        /\ z_adjustment_first = << >>
        /\ z_disc_real = << >>
        /\ positions_to_cut = {}
        /\ list_disc_z = << >>
        /\ list_disc_value = << >>
        /\ seg = << >>
        /\ loop_iz = 0
        /\ labeled = << >>
        /\ cleaned = << >>
        /\ recleaned = << >>

NextFin ==
    \/ Finalize
    \/ Label

SpecFin == InitFin /\ [][NextFin]_vars

\* ------------------------------------------- the labelling loop on its own
\* The finaliser on adjustments that move a disc down by MinSpacing slices,
\* leave it, or move it up by one slice, followed by the labelling loop,
\* slice by slice.
LabelAdjustments(n) == [1..n -> {-MinSpacing, 0, 1}]

InitLabel ==
    /\ InitFin
    /\ z_adjustment \in LabelAdjustments(Len(z_corr_max))

NextLabel ==
    \/ Finalize
    \/ LabelOpen
    \/ LabelSlice
    \/ LabelSave

SpecLabel == InitLabel /\ [][NextLabel]_vars

\* ------------------------------------------------- a run with four discs
\* A volume of 81 slices whose correlation is 1 at slices 10, 30, 50 and 70
\* and 0 elsewhere, an anchor at (z = 30, level 5) that local_adjustment
\* leaves where it is, and a template of 20 slices per disc; find_peaks_cwt
\* finds the four peaks, which are 20 slices apart: the correcting factor is 1.
Scenario ==
    [Input(81, 1, 30, 5, 20, {10, 30, 50, 70}, {})
        EXCEPT !.niter = ScenarioIter, !.peaks = << 10, 30, 50, 70 >>]

InitScenario == InitOf(Scenario)

NextScenario ==
    \/ LocalAdjustmentNoPeak
    \/ GetProfile
    \/ Calibrate
    \/ CutTableStep
    \/ FindMaxima
    \/ BHAccept
    \/ BHReject
    \/ BHReturn
    \/ Finalize
    \/ Label

SpecScenario == InitScenario /\ [][NextScenario]_vars

\* --------------------------------------------- local_adjustment on its own
\* Volumes of up to MaxSlices slices, patterns of half-width up to MaxIS.
MaxSlices == 25
MaxIS == 1

InitLocal ==
    \E n \in 1..MaxSlices : \E z \in 0..(n - 1) : \E sIS \in 0..MaxIS : \E p \in Peaks :
        InitOf([Input(n, sIS, z, 1, 3, {}, {}) EXCEPT !.peak = p])

NextLocal ==
    \/ LocalAdjustmentEdge
    \/ LocalAdjustmentNoPeak
    \/ LocalAdjustmentPeak
    \/ GetProfile
    \/ GetProfileRaises

SpecLocal == InitLocal /\ [][NextLocal]_vars

\* ------------------------------------------- runs with at most two discs
\* vertebral_detection on the runs with two expected discs, on the run that
\* keeps no expected disc and on the one that keeps a single disc, from its
\* call to the labelled segmentation.
InputsShort ==
    InputsTwoDiscs \cup
    { Input(6, 0, 0, 1, 3, {2}, {}),
      [Input(12, 1, 4, 1, 2, {1, 4, 9}, {}) EXCEPT !.peaks = << 1, 4, 9 >>] }

InitShort == \E c \in InputsShort : InitOf(c)

NextShort ==
    \/ LocalAdjustmentEdge
    \/ GetProfile
    \/ Calibrate
    \/ CutTableStep
    \/ FindMaxima
    \/ FindMaximaRaises
    \/ BHAccept
    \/ BHReject
    \/ BHReturn
    \/ Finalize
    \/ Label

SpecShort == InitShort /\ [][NextShort]_vars

\* The same runs, none of which stops in the middle of vertebral_detection:
\* a step that can be taken is taken.
SpecShortLive == SpecShort /\ WF_vars(NextShort)

\* ------------------------------------------------ the calibrator on its own
\* Volumes of CalibSlices slices in which find_peaks_cwt finds up to
\* MaxPeaks peaks, in ascending order; anchors at the three highest levels;
\* templates of 2 and 3 slices per disc.
CalibSlices == 8
MaxPeaks == 3

RECURSIVE AscendingSeq(_)
AscendingSeq(S) ==
    IF S = {} THEN << >>
    ELSE Append(AscendingSeq(S \ {SetMax(S)}), SetMax(S))

PeakLists(n) ==
    {AscendingSeq(S) : S \in {T \in SUBSET (0..(n - 1)) : Cardinality(T) <= MaxPeaks}}

InitCalib ==
    \E z \in 0..(CalibSlices - 1) : \E disc \in 1..3 : \E s \in {2, 3} :
    \E approx \in PeakLists(CalibSlices) :
        StateOf([Input(CalibSlices, 0, z, disc, s, {}, {}) EXCEPT !.peaks = approx],
                "calibrate", Args(<< z, disc >>, 0), z, disc)

NextCalib ==
    \/ Calibrate
    \/ CalibrateRaises

SpecCalib == InitCalib /\ [][NextCalib]_vars

\* ------------------------------- the table and the windows on their own
\* Volumes of up to MaxTableSlices slices with patterns of one slice, every
\* anchor slice, the anchor at one of the MaxLevel highest discs, templates
\* of 3 to 5 slices per disc in which find_peaks_cwt found no peak, and
\* profiles that are highest at the bottom slice, at the top slice, or on the
\* third slice from each end.
MaxTableSlices == 12
MaxLevel == 3

TableSpacings == {3, 4, 5}

TableProfiles(n) == {Profile(n, {0}, {}), Profile(n, {n - 1}, {}), Profile(n, {2, n - 3}, {})}

InitTable ==
    \E n \in 1..MaxTableSlices : \E z \in 0..(n - 1) : \E disc \in 1..MaxLevel :
    \E s \in TableSpacings : \E prof \in TableProfiles(n) :
        StateOf([Input(n, 0, z, disc, s, {}, {}) EXCEPT !.profile = prof],
                "cut_table", Args(<< z, disc >>, 0), z, disc)

NextTable ==
    \/ CutTableStep
    \/ FindMaxima
    \/ FindMaximaRaises

SpecTable == InitTable /\ [][NextTable]_vars

\* ------------------------------------------ the template on its own
\* vertebral_detection from the conversion of the template to its
\* calibration, in a volume of UnitSlices slices: voxels of 1/2, 1 and 2 mm,
\* templates of 2 and 4 mm per disc, anchors around the middle slice, up to
\* three peaks found by find_peaks_cwt.
UnitSlices == 45

VoxelSizes == {<< 1, 2 >>, << 1, 1 >>, << 2, 1 >>}

UnitPeakLists == {AscendingSeq(S) : S \in SUBSET {10, 20, 30}}

InitUnits ==
    \E p \in VoxelSizes : \E s \in {2, 4} : \E z \in 20..22 : \E disc \in 1..3 :
    \E approx \in UnitPeakLists :
        StateOf([Input(UnitSlices, SizeIS(p), z, disc, s, {}, {})
                    EXCEPT !.pz = p, !.peaks = approx],
                "convert", Args(<< z, disc >>, 0), z, disc)

NextUnits ==
    \/ ConvertUnits
    \/ LocalAdjustmentEdge
    \/ LocalAdjustmentNoPeak
    \/ GetProfile
    \/ Calibrate
    \/ CalibrateRaises

SpecUnits == InitUnits /\ [][NextUnits]_vars

\* ------------------------------------------------- the start of main
\* Every anchor of every volume of up to MaxSlices slices, given by -initz,
\* by -initcenter or not at all, up to the return of local_adjustment.
InitMain ==
    \E n \in 1..MaxSlices : \E z \in 0..(n - 1) : \E disc \in {1, 2} :
    \E a \in Arguments(Input(n, 1, z, disc, 3, {}, {})) :
        StateOf(Input(n, 1, z, disc, 3, {}, {}), "main", a, 0, 0)

NextMain ==
    \/ MainAnchor
    \/ MainNoAnchor
    \/ LocalAdjustmentEdge
    \/ LocalAdjustmentNoPeak

SpecMain == InitMain /\ [][NextMain]_vars

\* --------------------------------------------------------------- properties
Finalised == pc \in {"label", "clean", "done"}

Labelled == pc \in {"clean", "done"}

\* C1: the finalised list of disc positions is strictly increasing,
\* list_disc_z[i] < list_disc_z[i+1] for all i.
C1_StrictlyIncreasing ==
    Finalised =>
        \A i \in 1..(Len(list_disc_z) - 1) : list_disc_z[i] < list_disc_z[i + 1]

\* C2: after finalisation two consecutive entries of list_disc_z differ by at
\* least 5 slices.
C2_MinimumSpacing ==
    Finalised =>
        \A i \in 1..(Len(list_disc_z) - 1) :
            list_disc_z[i + 1] - list_disc_z[i] >= MinSpacing

\* The number of values ind_peak can take in local_adjustment, less one: the
\* farthest two results of the refinement can be apart.
AnchorRange == SearchHi - SearchLo

Nearest ==
    {k \in 1..Len(list_disc_z) :
        \A j \in 1..Len(list_disc_z) :
            Abs(list_disc_z[k] - current_z) <= Abs(list_disc_z[j] - current_z)}

\* C4: list_disc_value is as long as list_disc_z, an entry of list_disc_z
\* nearest to the anchor z the finaliser reads (current_z) has the anchor's
\* level, and the level drops by exactly 1 from each disc of the list to the
\* next.
C4_Reindexing ==
    Finalised =>
        /\ Len(list_disc_value) = Len(list_disc_z)
        /\ \E k \in Nearest : list_disc_value[k] = current_disc
        /\ \A i \in 1..(Len(list_disc_value) - 1) :
               list_disc_value[i + 1] = list_disc_value[i] - 1

\* The anchor's level went to a disc that is not the first of a list of
\* three.
C4_Witness ==
    /\ Finalised
    /\ Len(list_disc_z) = 3
    /\ list_disc_value[1] # current_disc

\* Two adjacent candidates of z_disc_real (Python indices i and i+1) are
\* closer than 5 slices.
Conflict(i) == At(z_disc_real, i + 1) - At(z_disc_real, i) < MinSpacing

Pairs == 0..(Len(z_disc_real) - 2)

Survivors == (0..(Len(z_disc_real) - 1)) \ positions_to_cut

\* The k-th candidate that was not removed, k from 1.
Survivor(k) == CHOOSE i \in Survivors : Cardinality({j \in Survivors : j <= i}) = k

\* C5, as the specification states it: of two adjacent candidates closer
\* than 5 slices the lower-index one survives and the other is removed.
C5_LowerIndexSurvives ==
    Finalised =>
        \A i \in Pairs :
            Conflict(i) => (i \notin positions_to_cut /\ (i + 1) \in positions_to_cut)

\* C5, as the code does it: a candidate is removed exactly when the next
\* candidate is less than 5 slices above it, so that of a conflicting pair
\* the lower-index candidate is removed and the higher-index one survives
\* unless it conflicts with its own successor; the last candidate always
\* survives, and list_disc_z is the survivors in their order.
C5_LowerIndexRemoved ==
    Finalised =>
        /\ \A i \in Pairs : Conflict(i) <=> i \in positions_to_cut
        /\ (Len(z_disc_real) - 1) \in Survivors
        /\ Len(list_disc_z) = Cardinality(Survivors)
        /\ \A k \in 1..Len(list_disc_z) : list_disc_z[k] = At(z_disc_real, Survivor(k))

\* A conflicting pair followed by a pair that does not conflict: the lower
\* candidate is gone and the higher one is the first of list_disc_z.
C5_Witness ==
    /\ Finalised
    /\ Len(z_disc_real) = 3
    /\ Conflict(0)
    /\ ~Conflict(1)
    /\ list_disc_z = << z_disc_real[2], z_disc_real[3] >>

\* The discs strictly above slice iz.
Above(iz) == {i \in 1..Len(list_disc_z) : list_disc_z[i] > iz}

\* C6: a foreground voxel of slice z gets the level of the disc with the
\* smallest z strictly greater than z, plus 1, and 0 when no disc is strictly
\* above z.
C6_PropagationRule ==
    Labelled =>
        \A v \in DOMAIN seg :
            seg[v] # 0 =>
                IF Above(v[2]) = {} THEN labeled[v] = 0
                ELSE \E i \in Above(v[2]) :
                        /\ \A j \in Above(v[2]) : list_disc_z[i] <= list_disc_z[j]
                        /\ labeled[v] = list_disc_value[i] + 1

\* C7: after the propagation and the cleaning a voxel has a nonzero label
\* exactly when the segmentation is nonzero there.
C7_MaskClosure ==
    pc = "done" =>
        \A v \in DOMAIN seg : (cleaned[v] # 0) <=> (seg[v] # 0)

\* C8: cleaning the output of clean_labeled_segmentation again, with the
\* same segmentation, returns that output.
C8_Idempotent == pc = "recleaned" => recleaned = cleaned

\* C9: of two labelled slices the lower one never has the smaller label:
\* z1 < z2 and both labels nonzero imply label(z1) >= label(z2).
C9_LabelMonotone ==
    Labelled =>
        \A v, w \in DOMAIN seg :
            (v[2] < w[2] /\ labeled[v] # 0 /\ labeled[w] # 0) => labeled[v] >= labeled[w]

\* Two slices under different discs carry different nonzero labels.
C9_Witness ==
    /\ Labelled
    /\ \E v, w \in DOMAIN seg :
           v[2] < w[2] /\ labeled[v] # 0 /\ labeled[w] # 0 /\ labeled[v] > labeled[w]

\* C10: two runs of the optimiser on the same approximate positions, table
\* and profile return the same adjustment vector.
C10_SameAdjustment == pc = "rerun_done" => z_adjustment = z_adjustment_first

\* The label every foreground voxel of slice iz carries.
SliceLabel(iz, l) ==
    \A v \in DOMAIN seg : (v[2] = iz /\ seg[v] # 0) => labeled[v] = l

Adjusted == pc = "profile"

\* The IS range of the pattern shifted by iz leaves the volume.
PatchOutside(iz) ==
    init_z + iz - size_IS < 0 \/ init_z + iz + size_IS > nz - 1

\* C12: if the pattern centred at the anchor z, or shifted by any offset of
\* -9..12, would leave the volume, local_adjustment returns the z it was
\* given (and nothing is raised: the run is at its next step).
C12_EdgeReturnsInput ==
    (Adjusted /\ (PatchOutside(0) \/ \E iz \in SearchLo..SearchHi : PatchOutside(iz)))
        => current_z = init_z

\* The centred pattern is inside the volume, the pattern shifted by -9 is
\* entirely below slice 0 (its negative indices address the top of the
\* volume and it has the full extent), and a local maximum above thr_corr
\* was on offer.
C12_Witness ==
    /\ Adjusted
    /\ ~PatchOutside(0)
    /\ init_z + SearchLo + size_IS + 1 < 0
    /\ PeakAccepted(peak)
    /\ AdjustedZ(init_z, peak[1]) # init_z

\* C13: without a local maximum of the adjusted curve, or with the largest
\* of them below 0.15, local_adjustment returns the z it was given.
C13_FallbackReturnsInput ==
    (Adjusted /\ (peak = << >> \/ peak[2] < ThrCorr)) => current_z = init_z

\* Every pattern was inside the volume and the best local maximum was just
\* below thr_corr, at an index that would have moved the anchor.
C13_Witness ==
    /\ Adjusted
    /\ PatternComplete(init_z, size_IS, nz)
    /\ peak # << >>
    /\ peak[2] = ThrCorr - 1
    /\ AdjustedZ(init_z, peak[1]) # init_z

\* C14: for an anchor in [0, nz) the computation of the correlation profile
\* raises nothing, and the profile has nz entries.
C14_ProfileCompletes ==
    /\ pc # "profile_failed"
    /\ pc = "calibrate" => Len(correlation_profile) = nz

\* C15: a run started with neither -initz nor -initcenter ends at the error:
\* no straightening, detection, cleaning or output step is run.
C15_NoAnchorAborts ==
    arguments = Args(<< >>, 0) => pc \in {"main", "aborted"}

\* A run without either option has been ended.
C15_Witness ==
    /\ pc = "aborted"
    /\ arguments = Args(<< >>, 0)

\* The table of expected offsets has been cut.
TableCut == pc \in {"find_maxima", "failed", "basinhopping", "finalize", "label",
                    "clean", "done"}

\* A run that ended before its end.
Failed == pc \in {"aborted", "profile_failed", "calibrate_failed", "failed"}

\* C16: a run in which no expected disc is kept in the volume is ended by
\* the failure and goes no further than the search of the maxima; a run that
\* failed has labelled and cleaned nothing; the list of discs of a run that
\* was finalised is not empty.
C16_EmptyListAborts ==
    /\ (TableCut /\ Len(mean_distance_from_init_disc_append) = 0)
           => pc \in {"find_maxima", "failed"}
    /\ Failed => (labeled = << >> /\ cleaned = << >>)
    /\ Finalised => Len(list_disc_z) >= 1

\* A run with the anchor on slice 0 kept no expected disc and has failed.
C16_Witness ==
    /\ pc = "failed"
    /\ current_z = 0
    /\ CutTable(mean_distance_from_init_disc(mean_distance, current_disc_adj),
                current_disc_adj, current_z, nz) = << >>
    /\ mean_distance_from_init_disc_append = << >>

\* The peak nearest the anchor has a peak after it, or before it.
HasNext(approx, k) == k + 1 <= Len(approx) - 1
HasPrevious(approx, k) == k - 1 >= 0

\* The factor of the calibrator as a fraction: (next peak - p) / template[level-1]
\* if there is a next peak more than 2 slices away, else
\* (p - previous peak) / template[level-2] if there is a previous peak more
\* than 2 slices away, else 1; 1 when no peak is found.
Factor(approx, z, md, level) ==
    IF Len(approx) = 0 THEN << 1, 1 >>
    ELSE LET k == new_current_disc(approx, z)
         IN  IF HasNext(approx, k) /\ At(approx, k + 1) - At(approx, k) > 2
             THEN << (At(approx, k + 1) - At(approx, k)) * DistDen, At(md, level - 1) >>
             ELSE IF HasPrevious(approx, k) /\ At(approx, k) - At(approx, k - 1) > 2
                  THEN << (At(approx, k) - At(approx, k - 1)) * DistDen,
                          At(md, PyIndex(level - 2, Len(md))) >>
                  ELSE << 1, 1 >>

\* C17: for every list of peaks and every anchor the calibrator completes,
\* and the template is multiplied by the factor above -- also when the peak
\* nearest the anchor is the last, the first or the only one.
C17_CalibratorFactor ==
    [][pc = "calibrate" =>
          /\ pc' = "cut_table"
          /\ mean_distance' =
                 Calibrated(mean_distance,
                            Factor(z_corr_max_approx, current_z, mean_distance,
                                   current_disc))]_vars

\* The entries of the clipped table that stand for the anchor disc: the
\* anchor is 0 slices from itself, every other disc is not.
AnchorEntries ==
    {i \in 0..(Len(mean_distance_from_init_disc_append) - 1) :
        At(mean_distance_from_init_disc_append, i) = 0}

\* The deviation of the spacing found at entry i from the template's: to the
\* next entry, or to the previous one at the last entry.
Deviation(index, tab, i) ==
    IF i < Len(index) - 1
    THEN Abs((At(index, i + 1) - At(index, i)) - (At(tab, i + 1) - At(tab, i)))
    ELSE Abs((At(index, i) - At(index, i - 1)) - (At(tab, i) - At(tab, i - 1)))

\* Candidate positions at the two ends of the volume.
EndIndices == [1..Len(mean_distance_from_init_disc_append) -> {0, nz - 1}]

\* C18: whatever the candidate positions, the constraint of
\* get_correlation_sum is 0 at the anchor's entry of the clipped table and
\* the spacing deviation at every other entry.
C18_AnchorExempt ==
    pc = "basinhopping" =>
        \A index \in EndIndices :
        \A i \in 0..(Len(index) - 1) :
            Constraint(index, mean_distance_from_init_disc_append, current_disc_adj, i)
                = IF i \in AnchorEntries
                  THEN 0
                  ELSE Deviation(index, mean_distance_from_init_disc_append, i)

\* The expected positions of all the discs of the template: anchor z plus
\* the cumulative offset.
ExpectedPositions ==
    {At(mean_distance_from_init_disc(mean_distance, current_disc_adj), i) + current_z :
        i \in 0..(LenTable - 1)}

RetainedPositions ==
    {mean_distance_from_z0[k] : k \in 1..Len(mean_distance_from_z0)}

\* C19: the expected positions that are retained are those in [0, nz): none
\* outside is kept and none inside is dropped.
C19_Clipping ==
    TableCut => RetainedPositions = {p \in ExpectedPositions : 0 <= p /\ p < nz}

\* The window of the expected disc ind: from the midpoint to the previous
\* expected position, or from slice 0 for the first disc, up to the midpoint
\* to the next expected position, or up to slice np - 1 included for the last.
FullWindow(z0, ind, np) ==
    LET lo == IF ind = 0 THEN 0 ELSE MidPoint(At(z0, ind - 1), At(z0, ind))
        hi == IF ind = Len(z0) - 1 THEN np ELSE MidPoint(At(z0, ind), At(z0, ind + 1))
    IN  {z \in 0..(np - 1) : lo <= z /\ z < hi}

\* C20: the approximate position of every retained disc is a slice of its
\* window on which the correlation is the highest of the window, the first
\* window starting at slice 0 and the last one ending at slice nz - 1; a
\* single retained disc is searched like any other.
C20_WindowMaximum ==
    /\ pc = "basinhopping" =>
           \A k \in 1..Len(z_corr_max) :
               LET W == FullWindow(mean_distance_from_z0, k - 1, nz)
               IN  /\ z_corr_max[k] \in W
                   /\ \A z \in W : At(correlation_profile, z)
                                        <= At(correlation_profile, z_corr_max[k])
    /\ (TableCut /\ Len(mean_distance_from_init_disc_append) = 1) => pc # "failed"

\* C21: the position of every disc before the removal is the approximate
\* position handed to the optimiser plus the optimiser's integer adjustment
\* (a sum of integers is its own nearest integer), with no other offset.
C21_RoundingNoOffset ==
    Finalised =>
        /\ Len(z_disc_real) = Len(z_corr_max)
        /\ \A i \in 1..Len(z_disc_real) : z_disc_real[i] = z_corr_max[i] + z_adjustment[i]

\* get_correlation_sum of an integer adjustment: the slices that are scored
\* are z_corr_max + adjustment, brought back into the volume.
IntegerIndex(adjustment, zcm, np) ==
    [i \in 1..Len(zcm) |->
        LET t == zcm[i] + adjustment[i]
        IN  IF t > np - 1 THEN np - 1 ELSE IF t < 0 THEN 0 ELSE t]

EnergyOfInteger(adjustment) ==
    -SumTerms(IntegerIndex(adjustment, z_corr_max, nz),
              mean_distance_from_init_disc_append, correlation_profile,
              current_disc_adj, Len(z_corr_max) - 1)

\* The optimiser has run its iterations and is about to return.
Returning == pc = "basinhopping" /\ bh_iter = niter

\* C22: the slice z_corr_max[i] + adjustment[i] of the returned integer
\* adjustment is, for every disc, the slice at which get_correlation_sum
\* scored the lowest point found; the objective of the returned adjustment
\* is the lowest objective found, and not above that of the zero adjustment.
C22_ReturnedIsBest ==
    Returning =>
        /\ \A i \in 1..Len(z_corr_max) :
               z_corr_max[i] + Returned[i] = Index(bh_best, z_corr_max, nz)[i]
        /\ EnergyOfInteger(Returned) = Energy(bh_best)
        /\ EnergyOfInteger(Returned) <= Energy(Zeros(Len(z_corr_max)))

\* Squared distance between two voxels.
DistSq(u, v) == (u[1] - v[1]) * (u[1] - v[1]) + (u[2] - v[2]) * (u[2] - v[2])

\* A voxel of the segmentation that has no label once the labels are masked.
Gap(v) == seg[v] # 0 /\ Mul(labeled, seg)[v] = 0

\* The labelled voxels within DilateRadius voxels of v, and the nearest ones.
LabelledNear(v) ==
    {u \in DOMAIN labeled : labeled[u] # 0 /\ DistSq(u, v) <= DilateRadius * DilateRadius}

NearestLabelled(v) ==
    {u \in LabelledNear(v) : \A w \in LabelledNear(v) : DistSq(u, v) <= DistSq(w, v)}

\* C23: after the cleaning, a voxel of the segmentation that had no label
\* and lies within 2 voxels of a labelled voxel carries the label of a
\* nearest labelled voxel.
C23_GapFilling ==
    pc = "done" =>
        \A v \in DOMAIN seg :
            (Gap(v) /\ LabelledNear(v) # {}) =>
                \E u \in NearestLabelled(v) : cleaned[v] = labeled[u]

\* The entry of the window that weights the pattern shifted by iz slices.
WeightExponent(iz) == At(gaussian_window, iz - SearchLo)

\* C24: the Gaussian window of local_adjustment is centred at offset 0: no
\* offset is weighted more than offset 0, and the offsets +k and -k are
\* weighted alike.
C24_GaussianCentred ==
    (Adjusted /\ gaussian_window # << >>) =>
        /\ \A iz \in SearchLo..SearchHi : WeightExponent(0) <= WeightExponent(iz)
        /\ \A k \in 1..(-SearchLo) : WeightExponent(k) = WeightExponent(-k)

\* A distance of d mm spans d / pz slices.
InSlices(md, p) == [i \in 1..Len(md) |-> (md[i] * p[2]) \div p[1]]

\* The entries of b are those of a times one factor.
SameFactor(a, b) ==
    /\ Len(a) = Len(b)
    /\ \A i, j \in 1..Len(a) : b[i] * a[j] = b[j] * a[i]

\* C25: the conversion gives every entry of the template in slices, d / pz
\* for a distance of d mm, and the calibration multiplies every entry by
\* the same factor.
C25_TemplateInSlices ==
    [][/\ pc = "convert" => mean_distance' = InSlices(mean_distance, pz)
       /\ (pc = "calibrate" /\ pc' = "cut_table") =>
              SameFactor(mean_distance, mean_distance')]_vars

\* C26: the optimiser never runs more than niter iterations, and every
\* optimisation that was started returns.
C26_OptimizerTerminates ==
    /\ [](bh_iter <= niter)
    /\ (pc = "basinhopping") ~> (pc = "finalize")

\* The optimiser has returned an adjustment that is not its initial guess.
C26_Witness ==
    /\ pc = "finalize"
    /\ Len(z_adjustment) >= 2
    /\ z_adjustment # Zeros(Len(z_adjustment))

\* The labelling loop is running or has run.
InLoop == pc = "labelling" \/ (pc = "clean" /\ labeled # << >>)

\* The number of slices the loop has been through.
Done == IF pc = "labelling" THEN loop_iz ELSE nz

\* C27: the loop leaves at 0 every voxel outside the segmentation; a voxel
\* of the segmentation in a slice the loop has been through carries the
\* level that the slice and the list of discs give, the same for the whole
\* slice; the other slices are as they were opened.
C27_PropagatorFrame ==
    InLoop =>
        \A v \in DOMAIN seg :
            /\ seg[v] = 0 => labeled[v] = 0
            /\ (seg[v] # 0 /\ v[2] < Done) =>
                   labeled[v] = vertebral_level(list_disc_z, list_disc_value, v[2])
            /\ v[2] >= Done => labeled[v] = seg[v]

\* The loop is over: some slice holds voxels of the segmentation, which took
\* a level, next to voxels outside it, and some slice took the level 0.
C27_Witness ==
    /\ pc = "clean"
    /\ \E u, v \in DOMAIN seg :
           /\ u[2] = v[2]
           /\ seg[u] = 0
           /\ seg[v] # 0
           /\ labeled[v] > 0
    /\ \E v \in DOMAIN seg : seg[v] # 0 /\ labeled[v] = 0

\* C28: the cleaning keeps the label of every voxel of the segmentation that
\* has one, and leaves at 0 the unlabelled voxels outside the segmentation:
\* it changes only unlabelled voxels of the segmentation and labelled voxels
\* outside it.
C28_CleanerFrame ==
    pc = "done" =>
        \A v \in DOMAIN seg :
            /\ (seg[v] # 0 /\ labeled[v] # 0) => cleaned[v] = labeled[v]
            /\ (seg[v] = 0 /\ labeled[v] = 0) => cleaned[v] = 0

\* A cleaning that kept a label next to a different label, filled a voxel of
\* the segmentation and removed a label outside it.
C28_Witness ==
    /\ pc = "done"
    /\ \E u, v \in DOMAIN seg :
           /\ seg[u] # 0 /\ labeled[u] # 0
           /\ seg[v] = 0 /\ labeled[v] > labeled[u]
           /\ DistSq(u, v) <= DilateRadius * DilateRadius
           /\ cleaned[v] = 0
    /\ \E w \in DOMAIN seg : seg[w] # 0 /\ labeled[w] = 0 /\ cleaned[w] # 0

\* The windows of the retained expected discs, in the order of the table.
Windows ==
    [k \in 1..Len(mean_distance_from_z0) |->
        Window(mean_distance_from_z0, k - 1, Len(correlation_profile))]

\* C29: when at least two expected discs are retained, the windows searched
\* are non-empty and pairwise disjoint, and the approximate positions handed
\* to the optimiser increase strictly with the disc index and are slices of
\* the volume.
C29_ApproxPositions ==
    /\ (TableCut /\ Len(mean_distance_from_z0) >= 2) =>
           /\ \A k \in DOMAIN Windows : Windows[k] # {}
           /\ \A j, k \in DOMAIN Windows : j < k => Windows[j] \cap Windows[k] = {}
           /\ pc # "failed"
    /\ pc = "basinhopping" =>
           /\ \A k \in DOMAIN z_corr_max : z_corr_max[k] \in 0..(nz - 1)
           /\ \A j, k \in DOMAIN z_corr_max : j < k => z_corr_max[j] < z_corr_max[k]

\* The move of the anchor for the last offset of the search range,
\* int(round(12/2)) + 1 = 7 slices (lines 513 and 564).
MaxMove == (SearchHi \div 2) + 1

\* C30: local_adjustment returns the z it was given or a z at most 7 slices
\* from it, and the anchor's level is the one the caller supplied: the level
\* that vertebral_detection goes on with is init_disc[1].
C30_BoundedRefinement ==
    Adjusted =>
        /\ \/ current_z = init_z
           \/ (current_z - init_z <= MaxMove /\ init_z - current_z <= MaxMove)
        /\ init_z = arguments.initz[1]
        /\ current_disc = arguments.initz[2]

\* The best local maximum was accepted at the last index that can hold one,
\* offset 11, and at the first one, offset -8: the anchor moved by 6 slices
\* up, or by 3 slices down.
C30_Witness ==
    /\ Adjusted
    /\ PatternComplete(init_z, size_IS, nz)
    /\ PeakAccepted(peak)
    /\ current_z - init_z \in {6, -3}

====
